---- MODULE Spec2Model ----
(***************************************************************************)
(* Nagel-Schreckenberg traffic simulator (src/traffic_simulator.py).       *)
(*                                                                         *)
(* The module models the TrafficSimulator engine: construction, the gap    *)
(* query, the four-rule step, the metrics recording and the                *)
(* run_simulation driver, together with the process-wide numpy generator   *)
(* (np.random) every engine of one process draws from.                     *)
(*                                                                         *)
(* Five specifications are given:                                          *)
(*   Spec     one engine; every draw of the generator may return any       *)
(*            value (the generator is left abstract), driven by step();    *)
(*   SpecFree Spec for engines that never brake at random, with step()     *)
(*            called again and again (weak fairness of the step() calls);  *)
(*   SpecCtor Spec with the constructor given any road length, valid or    *)
(*            not;                                                         *)
(*   SpecRun  one engine drawing from the process-wide generator, a        *)
(*            deterministic stream of its state, driven by                 *)
(*            run_simulation();                                            *)
(*   SpecRng  two engines of one process sharing the process-wide          *)
(*            generator, driven by step() in any order.                    *)
(***************************************************************************)
EXTENDS Integers, Sequences, FiniteSets, TLC

(***************************************************************************)
(* Bounds of the model.                                                    *)
(***************************************************************************)
MaxSpeed == 2         \* max_speed ranges over 0..MaxSpeed
MaxSteps == 4         \* step() calls explored per engine under Spec
MaxProcSteps == 2     \* step() calls explored per process under SpecRun, SpecRng
MaxSeed == 2          \* integer seeds range over 0..MaxSeed

(***************************************************************************)
(* Reals of the program that the model keeps exact: density is a number   *)
(* of Densities over DensityDen (every vehicle count of every road length  *)
(* occurs, and one density above 1), brake_prob a number of BrakeProbs     *)
(* over BrakeDen.                                                          *)
(***************************************************************************)
DensityDen == 5
Densities == 0 .. (DensityDen + 1)
BrakeDen == 2
BrakeProbs == 0 .. BrakeDen

Engines == {"A", "B"}
\* the road lengths explored
RoadLengths == 1 .. 5
\* the road lengths a constructor call may pass, valid or not
AnyRoadLengths == (0 - 1) .. 5
MaxSpeeds == 0 .. MaxSpeed
\* the default of random_seed; integer seeds are not negative
None == 0 - 1
Seeds == {None} \cup (0 .. MaxSeed)
RunArgs == (0 - 1) .. MaxProcSteps

(***************************************************************************)
(* Arithmetic helpers.                                                     *)
(***************************************************************************)
Max(a, b) == IF a > b THEN a ELSE b

Min(a, b) == IF a < b THEN a ELSE b

RECURSIVE Gcd(_, _)
Gcd(a, b) == IF b = 0 THEN a ELSE Gcd(b, a % b)

RECURSIVE SeqSum(_)
SeqSum(s) == IF s = <<>> THEN 0 ELSE Head(s) + SeqSum(Tail(s))

RECURSIVE SeqMin(_)
SeqMin(s) == IF Len(s) = 1 THEN s[1] ELSE Min(s[1], SeqMin(Tail(s)))

Range(s) == {s[i] : i \in 1 .. Len(s)}

\* a / b of two non-negative integers as the real it denotes (a fraction in
\* lowest terms); numpy's 0 / 0 is nan, kept as the fraction 0 / 0
TrueDivide(a, b) ==
    LET g == Gcd(a, b)
    IN  IF g = 0 THEN [num |-> 0, den |-> 0] ELSE [num |-> a \div g, den |-> b \div g]

\* the real 0
Zero == [num |-> 0, den |-> 1]

(***************************************************************************)
(* The process-wide generator np.random.  Its state is a number below      *)
(* RngMod; every draw advances the state once and returns the new state    *)
(* as the variate (the uniform value variate / RngMod of [0, 1)).          *)
(***************************************************************************)
RngMod == 8
RngStates == 0 .. (RngMod - 1)

\* one draw: the successor state of the generator
Draw(g) == (5 * g + 3) % RngMod

\* np.random.seed(s): the state is a function of the seed alone
SeedState(s) == (7 * s + 1) % RngMod

\* the next n variates of the generator in state g
RECURSIVE Stream(_, _)
Stream(g, n) == IF n = 0 THEN <<>> ELSE <<Draw(g)>> \o Stream(Draw(g), n - 1)

\* the state of the generator after n draws
RECURSIVE Advance(_, _)
Advance(g, n) == IF n = 0 THEN g ELSE Advance(Draw(g), n - 1)

\* `if random_seed:` -- None and 0 are both falsy
Truthy(seed) == seed # None /\ seed # 0

\* the state of the generator after the seeding statement of __init__
AfterSeeding(g, seed) == IF Truthy(seed) THEN SeedState(seed) ELSE g

\* np.random.random() < brake_prob for the variate u
BelowBrakeProb(u, brake_prob) == u * BrakeDen < brake_prob * RngMod

\* the variates that decide every comparison with a brake_prob either way
ExtremeVariates == {0, RngMod - 1}

(***************************************************************************)
(* numpy array helpers.                                                    *)
(***************************************************************************)
\* np.sort
np_sort(s) == SortSeq(s, LAMBDA a, b : a < b)

\* np.argsort: the indices of s in increasing order of their elements
np_argsort(s) ==
    SortSeq([i \in 1 .. Len(s) |-> i],
            LAMBDA i, j : s[i] < s[j] \/ (s[i] = s[j] /\ i < j))

\* the sequence s without its i-th element
RemoveAt(s, i) == SubSeq(s, 1, i - 1) \o SubSeq(s, i + 1, Len(s))

\* np.random.choice(road_length, k, replace=False) on the variates of tape:
\* k distinct cells, one draw each
RECURSIVE Choice(_, _, _)
Choice(cells, k, tape) ==
    IF k = 0 THEN <<>>
    ELSE LET i == (Head(tape) % Len(cells)) + 1
         IN  <<cells[i]>> \o Choice(RemoveAt(cells, i), k - 1, Tail(tape))

\* np.random.randint(0, max_speed + 1, k) on the variates of tape
RandInt(max_speed, k, tape) == [i \in 1 .. k |-> tape[i] % (max_speed + 1)]

\* the cells of a set in decreasing order (one order a sample may come in)
RECURSIVE Descending(_)
Descending(S) ==
    IF S = {} THEN <<>>
    ELSE LET m == CHOOSE x \in S : \A y \in S : y <= x
         IN  <<m>> \o Descending(S \ {m})

(***************************************************************************)
(* The engine.                                                             *)
(***************************************************************************)
\* int(density * road_length), density = dnum / DensityDen; int() rounds
\* towards zero
NumVehicles(dnum, road_length) ==
    IF road_length >= 0 THEN (dnum * road_length) \div DensityDen
    ELSE 0 - ((dnum * (0 - road_length)) \div DensityDen)

NoEngine ==
    [built |-> FALSE, road_length |-> 0, max_speed |-> 0, brake_prob |-> 0,
     density |-> 0, num_vehicles |-> 0, positions |-> <<>>, speeds |-> <<>>,
     space_time_data |-> <<>>, flow_data |-> <<>>, avg_speed_data |-> <<>>]

\* the engine __init__ leaves behind, given the sample of cells and the
\* initial speeds the generator returned
NewEngine(road_length, dnum, max_speed, brake_prob, sample, initial_speeds) ==
    [built |-> TRUE, road_length |-> road_length, max_speed |-> max_speed,
     brake_prob |-> brake_prob, density |-> dnum,
     num_vehicles |-> NumVehicles(dnum, road_length),
     positions |-> np_sort(sample), speeds |-> initial_speeds,
     space_time_data |-> <<>>, flow_data |-> <<>>, avg_speed_data |-> <<>>]

\* get_road_state marking the cells without a vehicle with -1
get_road_state_marked(s) ==
    [c1 \in 1 .. s.road_length |->
        LET at == {i \in 1 .. Len(s.positions) : s.positions[i] = c1 - 1}
        IN  IF at = {} THEN 0 - 1
            ELSE s.speeds[CHOOSE i \in at : \A j \in at : j <= i]]

\* get_road_state: cell c (stored at index c + 1) holds the speed of the
\* vehicle written last to it, 0 when no vehicle was written to it
get_road_state(s) ==
    [c1 \in 1 .. s.road_length |->
        LET at == {i \in 1 .. Len(s.positions) : s.positions[i] = c1 - 1}
        IN  IF at = {} THEN 0
            ELSE s.speeds[CHOOSE i \in at : \A j \in at : j <= i]]

\* a gap query that counts the vehicle itself among the vehicles ahead
_calculate_gap_self(positions, road_length, vehicle_pos) ==
    LET next_vehicles == SelectSeq(positions, LAMBDA q : q >= vehicle_pos)
        before == SelectSeq(positions, LAMBDA q : q < vehicle_pos)
    IN  IF Len(next_vehicles) > 0 THEN next_vehicles[1] - vehicle_pos - 1
        ELSE IF Len(before) > 0
             THEN (road_length - vehicle_pos - 1) + SeqMin(before)
             ELSE road_length - 1

\* _calculate_gap
_calculate_gap(positions, road_length, vehicle_pos) ==
    LET next_vehicles == SelectSeq(positions, LAMBDA q : q > vehicle_pos)
        before == SelectSeq(positions, LAMBDA q : q < vehicle_pos)
    IN  IF Len(next_vehicles) > 0 THEN next_vehicles[1] - vehicle_pos - 1
        ELSE IF Len(before) > 0
             THEN (road_length - vehicle_pos - 1) + SeqMin(before)
             ELSE road_length - 1

\* rule 1 of step without its test against max_speed
AccelerateUnbounded(speed, max_speed) == speed + 1

\* rule 1 of step
Accelerate(speed, max_speed) == IF speed < max_speed THEN speed + 1 ELSE speed

\* a rule 2 that lets a vehicle run one cell further than its gap
DecelerateLate(speed, gap) == IF speed > gap + 1 THEN Max(0, gap) ELSE speed

\* rule 2 of step
Decelerate(speed, gap) == IF speed > gap THEN Max(0, gap) ELSE speed

\* a rule 3 that draws for every vehicle
NeedsDrawAlways(speed) == TRUE

\* rule 3 of step needs a draw exactly when the speed is positive
NeedsDraw(speed) == speed > 0

\* rule 3 of step, u the variate drawn
RandomBrake(speed, u, brake_prob) ==
    IF BelowBrakeProb(u, brake_prob) THEN Max(0, speed - 1) ELSE speed

\* a movement that does not wrap at the end of the road
MoveUnwrapped(pos, speed, road_length) == pos + speed

\* rule 4 of step
Move(pos, speed, road_length) == (pos + speed) % road_length

\* a loop that updates the arrays in place: the gap of a vehicle is computed
\* on the positions as the vehicles processed before it left them
RECURSIVE StepLoopInPlace(_, _, _, _, _, _, _)
StepLoopInPlace(s, order, k, new_speeds, new_positions, tape, used) ==
    IF k > Len(order)
    THEN [speeds |-> new_speeds, positions |-> new_positions, used |-> used]
    ELSE LET idx == order[k]
             pos == s.positions[idx]
             v1 == Accelerate(s.speeds[idx], s.max_speed)
             gap == _calculate_gap(new_positions, s.road_length, pos)
             v2 == Decelerate(v1, gap)
             draws == NeedsDraw(v2)
             v3 == IF draws THEN RandomBrake(v2, tape[used + 1], s.brake_prob) ELSE v2
         IN  StepLoopInPlace(s, order, k + 1,
                      [new_speeds EXCEPT ![idx] = v3],
                      [new_positions EXCEPT ![idx] = Move(pos, v3, s.road_length)],
                      tape, IF draws THEN used + 1 ELSE used)

\* the loop of step over the vehicles order[k], order[k+1], ..., reading
\* the state s and the variates of tape from index used + 1 on
RECURSIVE StepLoop(_, _, _, _, _, _, _)
StepLoop(s, order, k, new_speeds, new_positions, tape, used) ==
    IF k > Len(order)
    THEN [speeds |-> new_speeds, positions |-> new_positions, used |-> used]
    ELSE LET idx == order[k]
             pos == s.positions[idx]
             v1 == Accelerate(s.speeds[idx], s.max_speed)
             gap == _calculate_gap(s.positions, s.road_length, pos)
             v2 == Decelerate(v1, gap)
             draws == NeedsDraw(v2)
             v3 == IF draws THEN RandomBrake(v2, tape[used + 1], s.brake_prob) ELSE v2
         IN  StepLoop(s, order, k + 1,
                      [new_speeds EXCEPT ![idx] = v3],
                      [new_positions EXCEPT ![idx] = Move(pos, v3, s.road_length)],
                      tape, IF draws THEN used + 1 ELSE used)

\* _collect_data appending one road array that every snapshot shares
_collect_data_aliased(s) ==
    [s EXCEPT
        !.space_time_data = [i \in 1 .. (Len(@) + 1) |-> get_road_state(s)],
        !.flow_data = Append(@, TrueDivide(SeqSum(s.speeds), s.road_length)),
        !.avg_speed_data =
            Append(@, IF Len(s.speeds) > 0
                      THEN TrueDivide(SeqSum(s.speeds), Len(s.speeds))
                      ELSE Zero)]

\* _collect_data
_collect_data(s) ==
    [s EXCEPT
        !.space_time_data = Append(@, get_road_state(s)),
        !.flow_data = Append(@, TrueDivide(SeqSum(s.speeds), s.road_length)),
        !.avg_speed_data =
            Append(@, IF Len(s.speeds) > 0
                      THEN TrueDivide(SeqSum(s.speeds), Len(s.speeds))
                      ELSE Zero)]

\* a state replacement that stores the new positions in increasing order
UpdateStateSorted(s, r) ==
    [s EXCEPT !.speeds = r.speeds, !.positions = np_sort(r.positions)]

\* the state replacement of step
UpdateState(s, r) == [s EXCEPT !.speeds = r.speeds, !.positions = r.positions]

\* step collecting the data before the state is replaced
step_collect_first(s, tape) ==
    LET r == StepLoop(s, np_argsort(s.positions), 1, s.speeds, s.positions, tape, 0)
    IN  [engine |-> UpdateState(_collect_data(s), r), used |-> r.used]

\* step on the variates of tape: the engine it leaves and the draws it made
step(s, tape) ==
    LET r == StepLoop(s, np_argsort(s.positions), 1, s.speeds, s.positions, tape, 0)
    IN  [engine |-> _collect_data(UpdateState(s, r)), used |-> r.used]

(***************************************************************************)
(* State.                                                                  *)
(*   rng   the state of the process-wide generator                         *)
(*   eng   the engines of the process                                      *)
(*   run   the position of the run_simulation call in progress             *)
(*   last  the last call that can raise and how it ended: the engine, the  *)
(*         result ("ok", or the error raised), the road_length the         *)
(*         constructor was given and the vehicle count it computed         *)
(*   obs   what was observed of each engine: the seed it was given, the    *)
(*         generator and the vehicles at its construction, and the number  *)
(*         of step() calls made on it                                      *)
(***************************************************************************)
VARIABLES rng, eng, run, last, obs

vars == <<rng, eng, run, last, obs>>

\* how a call on engine e ended
Outcome(e, result, road_length, n) ==
    [engine |-> e, result |-> result, road_length |-> road_length, num_vehicles |-> n]

NoCall == Outcome("A", "none", 0, 0)

NoRun == [pc |-> "idle", engine |-> "A", steps |-> 0, step |-> 0, before |-> NoEngine]

NoObs == [seed |-> None, rng0 |-> 0, positions |-> <<>>, speeds |-> <<>>, calls |-> 0]

Built == {e \in Engines : eng[e].built}

\* the step() calls made in the process so far
RECURSIVE TotalSteps(_)
TotalSteps(E) ==
    IF E = {} THEN 0
    ELSE LET e == CHOOSE x \in E : TRUE
         IN  Len(eng[e].flow_data) + TotalSteps(E \ {e})

\* the engines of one process are given the same parameters
SameParameters(e, road_length, dnum, max_speed, brake_prob) ==
    \A o \in Built \ {e} :
        /\ eng[o].road_length = road_length
        /\ eng[o].density = dnum
        /\ eng[o].max_speed = max_speed
        /\ eng[o].brake_prob = brake_prob

\* the values of S a constructor call may pass for the parameter named
\* field: those of the engines built so far, any when there is none
Given(S, field) == IF Built = {} THEN S ELSE {eng[o][field] : o \in Built}

Init ==
    /\ rng = 0
    /\ eng = [e \in Engines |-> NoEngine]
    /\ run = NoRun
    /\ last = NoCall
    /\ obs = [e \in Engines |-> NoObs]

\* the process starts with the generator in a state nobody chose
InitProc ==
    /\ rng \in RngStates
    /\ eng = [e \in Engines |-> NoEngine]
    /\ run = NoRun
    /\ last = NoCall
    /\ obs = [e \in Engines |-> NoObs]

(***************************************************************************)
(* TrafficSimulator(...) fails in np.random.choice when more cells are     *)
(* asked for than the road has, and when cells are asked for of a road     *)
(* without cells (road_length <= 0); asking for no cell of such a road     *)
(* does not fail.                                                          *)
(***************************************************************************)
ChoiceRaises(road_length, k) == k > road_length \/ (road_length <= 0 /\ k # 0)

\* __init__ on a choice that never raises and returns the cells there are
\* when more are asked for
ConstructAnyUnchecked(e, road_length, dnum, max_speed, brake_prob) ==
    LET n == NumVehicles(dnum, road_length)
    IN  /\ ~eng[e].built
        /\ run.pc # "running"
        /\ \E S \in SUBSET (0 .. (road_length - 1)) :
           \E initial_speeds \in [1 .. n -> 0 .. max_speed] :
               /\ Cardinality(S) = Min(n, road_length)
               /\ eng' = [eng EXCEPT ![e] =
                            NewEngine(road_length, dnum, max_speed, brake_prob,
                                      Descending(S), initial_speeds)]
               /\ obs' = [obs EXCEPT ![e] =
                            [seed |-> None, rng0 |-> rng,
                             positions |-> eng'[e].positions,
                             speeds |-> eng'[e].speeds, calls |-> 0]]
               /\ last' = Outcome(e, "ok", road_length, n)
               /\ UNCHANGED <<rng, run>>

\* __init__ with an unseeded generator left abstract: the sample is any set
\* of num_vehicles cells, the speeds any values of 0..max_speed
ConstructAny(e, road_length, dnum, max_speed, brake_prob) ==
    LET n == NumVehicles(dnum, road_length)
    IN  /\ ~eng[e].built
        /\ run.pc # "running"
        /\ IF ChoiceRaises(road_length, n)
           THEN /\ last' = Outcome(e, "ValueError", road_length, n)
                /\ UNCHANGED <<rng, eng, run, obs>>
           ELSE \E S \in SUBSET (0 .. (road_length - 1)) :
                \E initial_speeds \in [1 .. n -> 0 .. max_speed] :
                    /\ Cardinality(S) = n
                    /\ eng' = [eng EXCEPT ![e] =
                                 NewEngine(road_length, dnum, max_speed, brake_prob,
                                           Descending(S), initial_speeds)]
                    /\ obs' = [obs EXCEPT ![e] =
                                 [seed |-> None, rng0 |-> rng,
                                  positions |-> eng'[e].positions,
                                  speeds |-> eng'[e].speeds, calls |-> 0]]
                    /\ last' = Outcome(e, "ok", road_length, n)
                    /\ UNCHANGED <<rng, run>>

\* the draws one step() on the state s makes: one for every vehicle whose
\* speed is positive after rules 1 and 2
DrawsOfStep(s) ==
    Cardinality({i \in 1 .. Len(s.positions) :
        NeedsDraw(Decelerate(Accelerate(s.speeds[i], s.max_speed),
                             _calculate_gap(s.positions, s.road_length, s.positions[i])))})

\* step() with the generator left abstract: every draw returns any variate
StepAny(e) ==
    /\ eng[e].built
    /\ run.pc # "running"
    /\ Len(eng[e].flow_data) < MaxSteps
    /\ \E tape \in [1 .. DrawsOfStep(eng[e]) -> ExtremeVariates] :
           eng' = [eng EXCEPT ![e] = step(eng[e], tape).engine]
    /\ obs' = [obs EXCEPT ![e].calls = @ + 1]
    /\ UNCHANGED <<rng, run, last>>

Next ==
    \/ \E e \in {"A"} \ Built :
       \E road_length \in RoadLengths, dnum \in Densities,
          max_speed \in MaxSpeeds, brake_prob \in BrakeProbs :
           ConstructAny(e, road_length, dnum, max_speed, brake_prob)
    \/ StepAny("A")

Spec == Init /\ [][Next]_vars

\* an engine that never brakes at random (brake_prob = 0), on which step()
\* is called again and again for as long as the model follows it
NextFree ==
    \/ \E e \in {"A"} \ Built :
       \E road_length \in RoadLengths, dnum \in Densities, max_speed \in MaxSpeeds :
           ConstructAny(e, road_length, dnum, max_speed, 0)
    \/ StepAny("A")

\* a step() call on engine e can be made: the guard of StepAny(e), which is
\* ENABLED <<StepAny(e)>>_vars, as every step() call counts in obs
CanStep(e) ==
    /\ eng[e].built
    /\ run.pc # "running"
    /\ Len(eng[e].flow_data) < MaxSteps

\* weak fairness of the step() calls, WF_vars(StepAny("A")), with its
\* ENABLED written as CanStep
FairSteps == []<>(~CanStep("A")) \/ []<><<StepAny("A")>>_vars

SpecFree == Init /\ [][NextFree]_vars /\ FairSteps

(***************************************************************************)
(* The constructor called with any road length, valid or not.              *)
(***************************************************************************)
\* step() with the generator left abstract on an engine of any road length:
\* np.zeros(road_length) of get_road_state raises on a negative length,
\* after the state was replaced and before anything is recorded
StepChecked(e) ==
    /\ eng[e].built
    /\ run.pc # "running"
    /\ Len(eng[e].flow_data) < MaxProcSteps
    /\ IF eng[e].road_length < 0
       THEN /\ \E tape \in [1 .. DrawsOfStep(eng[e]) -> ExtremeVariates] :
                   eng' = [eng EXCEPT ![e] =
                             UpdateState(eng[e],
                                 StepLoop(eng[e], np_argsort(eng[e].positions), 1,
                                          eng[e].speeds, eng[e].positions, tape, 0))]
            /\ last' = Outcome(e, "ValueError in step", eng[e].road_length,
                               eng[e].num_vehicles)
            /\ UNCHANGED <<rng, run, obs>>
       ELSE /\ \E tape \in [1 .. DrawsOfStep(eng[e]) -> ExtremeVariates] :
                   eng' = [eng EXCEPT ![e] = step(eng[e], tape).engine]
            /\ obs' = [obs EXCEPT ![e].calls = @ + 1]
            /\ UNCHANGED <<rng, run, last>>

NextCtor ==
    \/ \E e \in {"A"} \ Built :
       \E road_length \in AnyRoadLengths, dnum \in Densities,
          max_speed \in MaxSpeeds, brake_prob \in BrakeProbs :
           ConstructAny(e, road_length, dnum, max_speed, brake_prob)
    \/ StepChecked("A")

SpecCtor == Init /\ [][NextCtor]_vars

(***************************************************************************)
(* The process with its generator.                                         *)
(***************************************************************************)
\* __init__ drawing from the process-wide generator
Construct(e, road_length, dnum, max_speed, brake_prob, random_seed) ==
    LET n == NumVehicles(dnum, road_length)
        g0 == AfterSeeding(rng, random_seed)
        tape == Stream(g0, 2 * n)
    IN  /\ ~eng[e].built
        /\ e = "B" => eng["A"].built
        /\ run.pc # "running"
        /\ SameParameters(e, road_length, dnum, max_speed, brake_prob)
        /\ IF ChoiceRaises(road_length, n)
           THEN /\ rng' = g0
                /\ last' = Outcome(e, "ValueError", road_length, n)
                /\ UNCHANGED <<eng, run, obs>>
           ELSE /\ eng' = [eng EXCEPT ![e] =
                             NewEngine(road_length, dnum, max_speed, brake_prob,
                                       Choice([c \in 1 .. road_length |-> c - 1], n,
                                              SubSeq(tape, 1, n)),
                                       RandInt(max_speed, n, SubSeq(tape, n + 1, 2 * n)))]
                /\ rng' = Advance(g0, 2 * n)
                /\ obs' = [obs EXCEPT ![e] =
                             [seed |-> random_seed, rng0 |-> rng,
                              positions |-> eng'[e].positions,
                              speeds |-> eng'[e].speeds, calls |-> 0]]
                /\ last' = Outcome(e, "ok", road_length, n)
                /\ UNCHANGED run

\* a loop that goes on while step <= steps
InRangeInclusive(i, steps) == i <= steps

\* `for step in range(steps)`: the loop goes on while step < steps
InRange(i, steps) == i < steps

\* run_simulation(steps) is entered
RunStart(e, steps) ==
    /\ eng[e].built
    /\ run.pc # "running"
    /\ TotalSteps(Engines) + Max(steps, 0) <= MaxProcSteps
    /\ run' = [pc |-> "running", engine |-> e, steps |-> steps, step |-> 0,
               before |-> eng[e]]
    /\ UNCHANGED <<rng, eng, last, obs>>

\* one iteration of `for step in range(steps)`: one step() call
RunIter ==
    /\ run.pc = "running"
    /\ InRange(run.step, run.steps)
    /\ LET e == run.engine
           r == step(eng[e], Stream(rng, eng[e].num_vehicles))
       IN  /\ eng' = [eng EXCEPT ![e] = r.engine]
           /\ rng' = Advance(rng, r.used)
           /\ obs' = [obs EXCEPT ![e].calls = @ + 1]
    /\ run' = [run EXCEPT !.step = @ + 1]
    /\ UNCHANGED last

\* range(steps) is exhausted: run_simulation returns
RunEnd ==
    /\ run.pc = "running"
    /\ ~InRange(run.step, run.steps)
    /\ run' = [run EXCEPT !.pc = "returned"]
    /\ UNCHANGED <<rng, eng, last, obs>>

\* step() drawing from the process-wide generator
Step(e) ==
    /\ eng[e].built
    /\ run.pc # "running"
    /\ TotalSteps(Engines) < MaxProcSteps
    /\ LET r == step(eng[e], Stream(rng, eng[e].num_vehicles))
       IN  /\ eng' = [eng EXCEPT ![e] = r.engine]
           /\ rng' = Advance(rng, r.used)
    /\ obs' = [obs EXCEPT ![e].calls = @ + 1]
    /\ UNCHANGED <<run, last>>

\* one engine driven by run_simulation
NextRun ==
    \/ \E e \in {"A"} \ Built :
       \E road_length \in RoadLengths, dnum \in Densities,
          max_speed \in MaxSpeeds, brake_prob \in BrakeProbs, random_seed \in Seeds :
           Construct(e, road_length, dnum, max_speed, brake_prob, random_seed)
    \/ \E steps \in RunArgs : RunStart("A", steps)
    \/ RunIter
    \/ RunEnd

SpecRun == InitProc /\ [][NextRun]_vars

\* the engines of one process stepped in any order
NextProc ==
    \/ \E e \in Engines \ Built :
       \E road_length \in Given(RoadLengths, "road_length"),
          dnum \in Given(Densities, "density"),
          max_speed \in Given(MaxSpeeds, "max_speed"),
          brake_prob \in Given(BrakeProbs, "brake_prob"), random_seed \in Seeds :
           Construct(e, road_length, dnum, max_speed, brake_prob, random_seed)
    \/ \E e \in Engines : Step(e)

SpecRng == InitProc /\ [][NextProc]_vars

(***************************************************************************)
(* Properties.                                                             *)
(***************************************************************************)
\* the cells strictly between cell p and cell q in the direction of travel
CellsBetween(p, q, road_length) == (q - p - 1) % road_length

\* the empty cells between vehicle i and the nearest vehicle ahead of it on
\* the ring: the whole rest of the ring when i is the only vehicle
EmptyAhead(positions, road_length, i) ==
    LET others == (1 .. Len(positions)) \ {i}
    IN  IF others = {} THEN road_length - 1
        ELSE LET j == CHOOSE a \in others : \A b \in others :
                          CellsBetween(positions[i], positions[a], road_length)
                              <= CellsBetween(positions[i], positions[b], road_length)
             IN  CellsBetween(positions[i], positions[j], road_length)

\* the smallest element of a non-empty set of integers
SetMin(S) == CHOOSE x \in S : \A y \in S : x <= y

\* the gap of the vehicle at p as section 4.1 of the specification defines it
GapByDefinition(positions, road_length, p) ==
    LET ahead == {q \in Range(positions) : q > p}
        behind == {q \in Range(positions) : q < p}
    IN  IF ahead # {} THEN SetMin(ahead) - p - 1
        ELSE IF behind # {} THEN (road_length - p - 1) + SetMin(behind)
        ELSE road_length - 1

\* C1: in every reachable state of an engine the positions of its vehicles
\* are pairwise distinct: as many distinct positions as vehicles.
NoCollision ==
    \A e \in Built :
        Cardinality(Range(eng[e].positions)) = eng[e].num_vehicles

\* C2: in the initial state and after every step every speed lies in
\* 0..max_speed.
SpeedBounds ==
    \A e \in Built : \A i \in 1 .. Len(eng[e].speeds) :
        0 <= eng[e].speeds[i] /\ eng[e].speeds[i] <= eng[e].max_speed

\* C2 witness: after a step, next to a vehicle stopped by its gap, a vehicle
\* runs at max_speed > 0
SpeedBoundsWitness ==
    \E e \in Built :
        /\ obs[e].calls > 0
        /\ eng[e].max_speed > 0
        /\ \E i, j \in 1 .. Len(eng[e].speeds) :
               eng[e].speeds[i] = eng[e].max_speed /\ eng[e].speeds[j] = 0

\* C3: in every reachable state the gap query returns, for every vehicle,
\* the gap of the definition: (smallest position > p) - p - 1 when there is
\* one, else (road_length - p - 1) + (smallest position < p) when there is
\* one, else road_length - 1.
GapQueryCorrect ==
    \A e \in Built : \A i \in 1 .. Len(eng[e].positions) :
        _calculate_gap(eng[e].positions, eng[e].road_length, eng[e].positions[i])
            = GapByDefinition(eng[e].positions, eng[e].road_length, eng[e].positions[i])

\* C4: in every step every vehicle's final speed is at most the number of
\* empty cells between it and the nearest vehicle ahead of it on the ring
\* before the step.
GapRespectsMovement ==
    [][\A e \in Engines :
          (eng[e].built /\ obs'[e].calls = obs[e].calls + 1) =>
              \A i \in 1 .. Len(eng[e].positions) :
                  eng'[e].speeds[i]
                      <= EmptyAhead(eng[e].positions, eng[e].road_length, i)]_vars

\* C5: two engines constructed with identical parameters and the same seed
\* (a seed that seeds; seed 0 is the matter of C6) hold identical positions,
\* speeds and history buffers after the same number of steps, in whatever
\* order the two were constructed and stepped.
Determinism ==
    \A a, b \in Built :
        ( /\ obs[a].seed = obs[b].seed
          /\ Truthy(obs[a].seed)
          /\ eng[a].road_length = eng[b].road_length
          /\ eng[a].density = eng[b].density
          /\ eng[a].max_speed = eng[b].max_speed
          /\ eng[a].brake_prob = eng[b].brake_prob
          /\ obs[a].calls = obs[b].calls )
        => eng[a] = eng[b]

\* the vehicles __init__ places when the generator is seeded with seed
SeededVehicles(road_length, dnum, max_speed, seed) ==
    LET n == NumVehicles(dnum, road_length)
        tape == Stream(SeedState(seed), 2 * n)
    IN  [positions |-> np_sort(Choice([c \in 1 .. road_length |-> c - 1], n,
                                      SubSeq(tape, 1, n))),
         speeds |-> RandInt(max_speed, n, SubSeq(tape, n + 1, 2 * n))]

\* C6: for every seed given to the constructor (every value but None, 0
\* included) the generator is seeded with it before the initial draws: the
\* initial positions and speeds are those of the parameters and the seed.
SeedingDecidesInit ==
    \A e \in Built :
        obs[e].seed # None =>
            LET v == SeededVehicles(eng[e].road_length, eng[e].density,
                                    eng[e].max_speed, obs[e].seed)
            IN  obs[e].positions = v.positions /\ obs[e].speeds = v.speeds

\* history h2 is history h1 with exactly one element appended
AppendedOne(h1, h2) == Len(h2) = Len(h1) + 1 /\ SubSeq(h2, 1, Len(h1)) = h1

\* C7: the three histories always have the length of the number of step()
\* calls made, and every step() call appends exactly one element to each of
\* them and leaves the elements recorded before unchanged.
HistoryAppendOnly ==
    /\ [](\A e \in Built :
             /\ Len(eng[e].space_time_data) = obs[e].calls
             /\ Len(eng[e].flow_data) = obs[e].calls
             /\ Len(eng[e].avg_speed_data) = obs[e].calls)
    /\ [][\A e \in Engines :
             (eng[e].built /\ obs'[e].calls = obs[e].calls + 1) =>
                 /\ AppendedOne(eng[e].space_time_data, eng'[e].space_time_data)
                 /\ AppendedOne(eng[e].flow_data, eng'[e].flow_data)
                 /\ AppendedOne(eng[e].avg_speed_data, eng'[e].avg_speed_data)]_vars

\* C7 witness: three steps were recorded and the last two snapshots differ
\* from the first
HistoryAppendOnlyWitness ==
    \E e \in Built :
        /\ obs[e].calls = 3
        /\ eng[e].space_time_data[1] # eng[e].space_time_data[2]
        /\ eng[e].space_time_data[1] # eng[e].space_time_data[3]
        /\ eng[e].flow_data[1] # eng[e].flow_data[3]

\* C8: the flow a step appends is (sum of the speeds after the step) /
\* road_length, the average speed it appends is their mean, 0 without
\* vehicles: flow * road_length = sum(speeds), avg * vehicle_count =
\* sum(speeds).
MetricsRecorded ==
    \A e \in Built :
        obs[e].calls > 0 =>
            LET flow == eng[e].flow_data[Len(eng[e].flow_data)]
                avg == eng[e].avg_speed_data[Len(eng[e].avg_speed_data)]
                total == SeqSum(eng[e].speeds)
            IN  /\ flow.num * eng[e].road_length = total * flow.den
                /\ IF eng[e].num_vehicles > 0
                   THEN avg.num * eng[e].num_vehicles = total * avg.den
                   ELSE avg.num = 0

\* C8 witness: a second step recorded a flow and a mean that are no
\* integers and differ from those of the first step
MetricsRecordedWitness ==
    \E e \in Built :
        /\ obs[e].calls = 2
        /\ eng[e].flow_data[2].den > 1
        /\ eng[e].avg_speed_data[2].den > 1
        /\ eng[e].flow_data[2] # eng[e].flow_data[1]

\* C9: run_simulation(steps), steps >= 0, returns after exactly `steps`
\* step() calls: each history is `steps` longer than at the call, and
\* run_simulation(0) leaves the engine as it was.
RunExact ==
    (run.pc = "returned" /\ run.steps >= 0) =>
        LET s == eng[run.engine]
        IN  /\ run.step = run.steps
            /\ Len(s.space_time_data) = Len(run.before.space_time_data) + run.steps
            /\ Len(s.flow_data) = Len(run.before.flow_data) + run.steps
            /\ Len(s.avg_speed_data) = Len(run.before.avg_speed_data) + run.steps
            /\ run.steps = 0 => s = run.before

\* C9 witness: run_simulation(2) returned and moved the vehicles
RunExactWitness ==
    /\ run.pc = "returned"
    /\ run.steps = 2
    /\ eng[run.engine].positions # run.before.positions

\* C10: run_simulation(steps) with steps < 0 ends in an error, not in a
\* return, and leaves the engine as it was.
NegativeStepsRejected ==
    (run.pc # "running" /\ run.steps < 0) =>
        run.pc = "raised" /\ eng[run.engine] = run.before

\* C11: a constructor call with road_length <= 0 ends in an error whatever
\* the other parameters are, and no engine of such a road length exists.
InvalidRoadLengthRejected ==
    /\ (last.result \in {"ok", "ValueError"} /\ last.road_length <= 0)
           => last.result = "ValueError"
    /\ \A e \in Built : eng[e].road_length > 0

\* C12: a constructor call whose computed vehicle count exceeds road_length
\* ends in an error and builds no engine, so no engine has more vehicles
\* than cells.
VehicleCountChecked ==
    /\ (last.result \in {"ok", "ValueError"} /\ last.num_vehicles > last.road_length)
           => (last.result = "ValueError" /\ ~eng[last.engine].built)
    /\ \A e \in Built :
           /\ eng[e].num_vehicles <= eng[e].road_length
           /\ Len(eng[e].positions) <= eng[e].road_length

\* C12 witness: a call with density above 1 computed more vehicles than
\* cells and ended in the error
VehicleCountCheckedWitness ==
    /\ last.result = "ValueError"
    /\ last.num_vehicles > last.road_length
    /\ last.road_length > 0
    /\ ~eng[last.engine].built

\* C13: on an engine without vehicles every step() and every
\* run_simulation(k), k >= 0, returns without an error, every flow and every
\* average speed recorded is 0, and every snapshot recorded has road_length
\* cells, all 0.
EmptyRoad ==
    \A e \in Built :
        eng[e].num_vehicles = 0 =>
            /\ last.result = "ok"
            /\ eng[e].positions = <<>> /\ eng[e].speeds = <<>>
            /\ Len(eng[e].flow_data) = obs[e].calls
            /\ (run.pc = "returned" /\ run.engine = e /\ run.steps >= 0)
                   => Len(eng[e].flow_data) = Len(run.before.flow_data) + run.steps
            /\ \A t \in 1 .. obs[e].calls :
                   /\ eng[e].flow_data[t] = Zero
                   /\ eng[e].avg_speed_data[t] = Zero
                   /\ eng[e].space_time_data[t] = [c \in 1 .. eng[e].road_length |-> 0]

\* C13 witness: run_simulation(2) returned on a road of 5 cells built with
\* density 0
EmptyRoadWitness ==
    /\ run.pc = "returned"
    /\ run.steps = 2
    /\ eng[run.engine].built
    /\ eng[run.engine].density = 0
    /\ eng[run.engine].road_length = 5
    /\ eng[run.engine].num_vehicles = 0
    /\ Len(eng[run.engine].space_time_data) = 2

\* C14: the stored positions are in increasing order in the initial state
\* and after every step() call.
SortedStorage ==
    \A e \in Built : \A i \in 1 .. (Len(eng[e].positions) - 1) :
        eng[e].positions[i] < eng[e].positions[i + 1]

\* C15: positions and speeds always have the length floor(density *
\* road_length) computed at construction; a step() call keeps that length
\* and index i of both arrays stays with one vehicle: the position at index
\* i after the step is the position at index i before it, advanced by the
\* speed at index i after it.
FixedPopulation ==
    /\ [](\A e \in Built :
             /\ eng[e].num_vehicles = (eng[e].density * eng[e].road_length) \div DensityDen
             /\ Len(eng[e].positions) = eng[e].num_vehicles
             /\ Len(eng[e].speeds) = eng[e].num_vehicles)
    /\ [][\A e \in Engines :
             (eng[e].built /\ obs'[e].calls = obs[e].calls + 1) =>
                 /\ eng'[e].num_vehicles = eng[e].num_vehicles
                 /\ Len(eng'[e].positions) = Len(eng[e].positions)
                 /\ Len(eng'[e].speeds) = Len(eng[e].speeds)
                 /\ \A i \in 1 .. Len(eng[e].positions) :
                        eng'[e].positions[i]
                            = (eng[e].positions[i] + eng'[e].speeds[i]) % eng[e].road_length]_vars

\* C15 witness: after two steps of three vehicles with different speeds, one
\* of them has wrapped past the end of the road
FixedPopulationWitness ==
    \E e \in Built :
        /\ obs[e].calls = 2
        /\ eng[e].num_vehicles = 3
        /\ eng[e].speeds[1] # eng[e].speeds[2]
        /\ \E i \in 1 .. 2 : eng[e].positions[i] > eng[e].positions[i + 1]

\* the speed of the vehicle at index i of the state s after acceleration
\* and the clamp to its gap: min(min(v + 1, max_speed), g)
Clamped(s, i) ==
    Min(Min(s.speeds[i] + 1, s.max_speed),
        _calculate_gap(s.positions, s.road_length, s.positions[i]))

\* the braking draw of the k-th vehicle processed in a step on the state s
\* with the generator in state g: the vehicles are processed by increasing
\* position, and those with a positive clamped speed draw one after another
BrakingDraw(s, g, k) ==
    LET order == np_argsort(s.positions)
        nth == Cardinality({j \in 1 .. k : Clamped(s, order[j]) > 0})
    IN  Stream(g, nth)[nth]

\* C16: in every step() call, for every vehicle with speed v, position p and
\* gap g before the step, the speed after the step is c - b, where
\* c = min(min(v + 1, max_speed), g) and b = 1 if c > 0 and the vehicle's
\* braking draw is below brake_prob, else b = 0; the position after the step
\* is (p + final speed) mod road_length, a cell of the road.  With
\* brake_prob = 0 the final speed is c, with brake_prob = 1 it is c - 1
\* whenever c > 0.
FourRuleUpdate ==
    [][\A e \in Engines :
          (eng[e].built /\ obs'[e].calls = obs[e].calls + 1) =>
              LET s == eng[e]
                  order == np_argsort(s.positions)
              IN  \A k \in 1 .. Len(order) :
                      LET i == order[k]
                          c == Clamped(s, i)
                          b == IF c > 0 /\ BelowBrakeProb(BrakingDraw(s, rng, k),
                                                         s.brake_prob)
                               THEN 1 ELSE 0
                      IN  /\ eng'[e].speeds[i] = c - b
                          /\ eng'[e].positions[i]
                                 = (s.positions[i] + eng'[e].speeds[i]) % s.road_length
                          /\ eng'[e].positions[i] \in 0 .. (s.road_length - 1)
                          /\ s.brake_prob = 0 => eng'[e].speeds[i] = c
                          /\ (s.brake_prob = BrakeDen /\ c > 0)
                                 => eng'[e].speeds[i] = c - 1]_vars

\* C16 witness: an engine with brake_prob strictly between 0 and 1 made a
\* step after which a vehicle that wrapped runs at speed 1 below max_speed
\* and another vehicle stands
FourRuleUpdateWitness ==
    \E e \in Built :
        /\ obs[e].calls = 1
        /\ eng[e].brake_prob = 1
        /\ eng[e].max_speed = 2
        /\ eng[e].num_vehicles >= 2
        /\ \E i, j \in 1 .. eng[e].num_vehicles :
               /\ eng[e].speeds[i] = 1 /\ eng[e].speeds[j] = 0
               /\ obs[e].speeds[i] >= 1
               /\ eng[e].positions[i] < obs[e].positions[i]

\* C17: every step() call advances the generator by exactly one draw per
\* vehicle, whatever the speeds and gaps of the vehicles are.
OneDrawPerVehicle ==
    [][\A e \in Engines :
          (eng[e].built /\ obs'[e].calls = obs[e].calls + 1) =>
              rng' = Advance(rng, eng[e].num_vehicles)]_vars

\* the vehicles of the state s whose speed is positive after acceleration
\* and the clamp to the gap
Moving(s) == {i \in 1 .. Len(s.positions) : Clamped(s, i) > 0}

\* C17 as amended: every step() call advances the generator by exactly one
\* draw per vehicle whose speed is positive after acceleration and the clamp
\* to its gap, and by none for the other vehicles.
OneDrawPerMovingVehicle ==
    [][\A e \in Engines :
          (eng[e].built /\ obs'[e].calls = obs[e].calls + 1) =>
              rng' = Advance(rng, Cardinality(Moving(eng[e])))]_vars

\* C17 witness: the only engine of the process, seeded and holding three
\* vehicles, made one step that drew once or twice
OneDrawPerMovingVehicleWitness ==
    /\ Built = {"A"}
    /\ obs["A"].calls = 1
    /\ Truthy(obs["A"].seed)
    /\ eng["A"].num_vehicles = 3
    /\ \E k \in 1 .. 2 : rng = Advance(SeedState(obs["A"].seed), 6 + k)

\* the processing orders of the vehicles of the set S: its permutations
RECURSIVE Orders(_)
Orders(S) ==
    IF S = {} THEN {<<>>}
    ELSE UNION {{<<i>> \o o : o \in Orders(S \ {i})} : i \in S}

\* the variates a step that processes the vehicles of s in the given order
\* draws, when the draw of vehicle i (one of Moving(s)) returns u[i]
RECURSIVE DrawsInOrder(_, _, _)
DrawsInOrder(order, u, k) ==
    IF k > Len(order) THEN <<>>
    ELSE (IF order[k] \in DOMAIN u THEN <<u[order[k]]>> ELSE <<>>)
             \o DrawsInOrder(order, u, k + 1)

\* the generator's variates in that order, followed by the variates of
\* draws nobody waits for
TapeInOrder(order, u) == DrawsInOrder(order, u, 1) \o [i \in 1 .. Len(order) |-> 0]

\* the simultaneous update of all vehicles of s, each from the positions
\* and speeds before the step and its own variate u[i]
ParallelUpdate(s, u) ==
    LET final == [i \in 1 .. Len(s.positions) |->
                     LET c == Clamped(s, i)
                     IN  IF c > 0 /\ BelowBrakeProb(u[i], s.brake_prob)
                         THEN c - 1 ELSE c]
    IN  [speeds |-> final,
         positions |-> [i \in 1 .. Len(s.positions) |->
                           (s.positions[i] + final[i]) % s.road_length]]

\* C18: in every reachable state, for every choice of the braking variates
\* of the vehicles that draw one, the loop of step() leaves the same speeds and positions in
\* whatever order it processes the vehicles, those of the simultaneous
\* update of all vehicles from the state before the step.
OrderIndependent ==
    \A e \in Built :
        LET s == eng[e]
            n == Len(s.positions)
            orders == Orders(1 .. n)
        IN  \A u \in [Moving(s) -> ExtremeVariates] :
                LET p == ParallelUpdate(s, u)
                IN  \A order \in orders :
                        LET r == StepLoop(s, order, 1, s.speeds, s.positions,
                                          TapeInOrder(order, u), 0)
                        IN  r.speeds = p.speeds /\ r.positions = p.positions

\* C18 witness: after a step, three vehicles stand so that a loop updating
\* the arrays in place would leave another result than the loop of step()
OrderIndependentWitness ==
    \E e \in Built :
        /\ obs[e].calls >= 1
        /\ eng[e].num_vehicles = 3
        /\ LET s == eng[e]
               u == [i \in Moving(s) |-> RngMod - 1]
               order == np_argsort(s.positions)
               tape == TapeInOrder(order, u)
           IN  StepLoopInPlace(s, order, 1, s.speeds, s.positions, tape, 0).positions
                   # StepLoop(s, order, 1, s.speeds, s.positions, tape, 0).positions

\* C19: on a full road (as many vehicles as cells) the gap of every vehicle
\* is 0 in every reachable state; from the first step() call on all speeds
\* are 0, the positions are those of the construction, and every flow and
\* every average speed recorded is 0.
FullRoadFrozen ==
    \A e \in Built :
        eng[e].num_vehicles = eng[e].road_length =>
            /\ \A i \in 1 .. Len(eng[e].positions) :
                   _calculate_gap(eng[e].positions, eng[e].road_length,
                                  eng[e].positions[i]) = 0
            /\ eng[e].positions = obs[e].positions
            /\ obs[e].calls >= 1 =>
                   \A i \in 1 .. Len(eng[e].speeds) : eng[e].speeds[i] = 0
            /\ \A t \in 1 .. Len(eng[e].flow_data) : eng[e].flow_data[t] = Zero
            /\ \A t \in 1 .. Len(eng[e].avg_speed_data) :
                   eng[e].avg_speed_data[t] = Zero

\* C19 witness: a full road of five cells whose vehicles all started with a
\* positive speed, one of them at max_speed = 2, after two steps
FullRoadFrozenWitness ==
    \E e \in Built :
        /\ eng[e].road_length = 5
        /\ eng[e].num_vehicles = 5
        /\ eng[e].max_speed = 2
        /\ eng[e].brake_prob = 1
        /\ obs[e].calls = 2
        /\ \A i \in 1 .. 5 : obs[e].speeds[i] >= 1
        /\ \E i \in 1 .. 5 : obs[e].speeds[i] = 2

\* the engine holds exactly one vehicle and never brakes at random
SingleVehicle ==
    /\ eng["A"].built
    /\ eng["A"].num_vehicles = 1
    /\ eng["A"].brake_prob = 0

\* the speed a single vehicle settles at
FreeSpeed == Min(eng["A"].max_speed, eng["A"].road_length - 1)

\* C20: with exactly one vehicle and brake_prob = 0, whatever the initial
\* speed is, repeated step() calls eventually bring the speed to
\* min(max_speed, road_length - 1); every later step() call leaves it at
\* that value and advances the position by it modulo road_length.
SingleVehicleFreeFlow ==
    /\ SingleVehicle ~> (SingleVehicle /\ eng["A"].speeds[1] = FreeSpeed)
    /\ [][(SingleVehicle /\ eng["A"].speeds[1] = FreeSpeed
                /\ obs'["A"].calls = obs["A"].calls + 1)
            => /\ eng'["A"].speeds[1] = FreeSpeed
               /\ eng'["A"].positions[1]
                      = (eng["A"].positions[1] + FreeSpeed) % eng["A"].road_length]_vars

\* C20 witness: a single vehicle that started at speed 0 on a road of five
\* cells runs at max_speed = 2 after two steps and has wrapped
SingleVehicleFreeFlowWitness ==
    /\ SingleVehicle
    /\ eng["A"].road_length = 5
    /\ eng["A"].max_speed = 2
    /\ obs["A"].speeds[1] = 0
    /\ obs["A"].calls = 2
    /\ eng["A"].speeds[1] = 2
    /\ eng["A"].positions[1] < obs["A"].positions[1]

====
